---- MODULE Spec2Model ----
(***************************************************************************)
(* PageAuto: a page-object layer over a browser-automation driver.         *)
(* The model covers pageauto/page_object.py: the construction of the       *)
(* PageObject tree from a configuration document (PageObject.__init__),    *)
(* the resolution of a descriptor (find, ele, count), attribute access     *)
(* (__getattr__), the attachment of a driver (set_driver) and the          *)
(* decorated actions click and send_keys (require_driver, switch_frame,    *)
(* highlight, screenshot).                                                 *)
(*                                                                         *)
(* The browser is the environment.  Every operation receives what the      *)
(* browser answers while it runs: for each descriptor the number of        *)
(* elements its pattern matches (before and after the native action) and   *)
(* whether the native action succeeds.  An element handle the browser has  *)
(* given stays usable: stale handles are outside the model.                *)
(***************************************************************************)
EXTENDS Integers, Sequences, FiniteSets, TLC

VARIABLES
    doc,         \* the configuration document handed to PageObject(page_dict)
    built,       \* "pending", "ok", or the kind of the exception __init__ raised
    page,        \* the PageObject tree: path |-> the object's declared attributes
    driver,      \* path |-> the object's `driver` attribute
    eles,        \* path |-> the object's `eles` attribute (None or a list)
    age,         \* path |-> time.time() - the object's `last_found` attribute
    ctx,         \* the browser's current browsing context (frames switched into)
    call         \* the last operation called on the tree, and what it did

vars == <<doc, built, page, driver, eles, age, ctx, call>>

(***************************************************************************)
(* Bounds of the model.                                                    *)
(***************************************************************************)
MaxNodes == 3      \* descriptors in an enumerated configuration document
MaxMatches == 2    \* elements a pattern matches in the browser
MaxCtx == 1        \* frames the browser context is nested in

(***************************************************************************)
(* Python values.  None, lists and element handles are tagged so that an   *)
(* optional value can be compared with any other.                          *)
(***************************************************************************)
None == [k |-> "None", v |-> <<>>]
ListV(l) == [k |-> "list", v |-> l]
ElemV(h) == [k |-> "elem", v |-> <<h>>]
IsNone(x) == x.k = "None"

NoNode == <<>>     \* pre_ele = None, frame = None

\* A live element handle: the i-th element (0-based, in document order) that
\* the pattern of descriptor d matches.
Handle(d, i) == [d |-> d, i |-> i]
Matches(d, n) == [j \in 1..n |-> Handle(d, j - 1)]

\* list[i] in Python for i >= 0: the element, or IndexError.
IndexError == [k |-> "IndexError", v |-> <<>>]
Index(l, i) == IF i < Len(l) THEN ElemV(l[i + 1]) ELSE IndexError

(***************************************************************************)
(* Module constants of page_object.py.                                     *)
(***************************************************************************)
_ELE_TREE == "ele_tree"
BY_LIST == {"id", "xpath", "link text", "partial link text", "name",
            "tag name", "class name", "css selector"}
\* keys of object.__dict__ and of WebElement.__dict__ (those the model uses)
ObjectDict == {"__class__", "__init__", "__repr__", "__doc__"}
WebElementDict == {"click", "send_keys", "get_attribute", "find_elements",
                   "text", "tag_name", "id", "parent"}
_INVALID_ELE_NAME == ObjectDict \cup WebElementDict \cup {_ELE_TREE}

DefaultTimeout == 5
DefaultGap == 1
DefaultOrder == 0
DEFAULT_ATTRIBUTE ==
    [by |-> "css selector", timeout |-> DefaultTimeout, gap |-> DefaultGap,
     is_frame |-> FALSE, order |-> DefaultOrder]

(***************************************************************************)
(* Configuration documents.  A document is a nested dict; it is held as a  *)
(* function from the path of names leading to a descriptor to the dict of  *)
(* that descriptor.  The dict is the set of keys it has and their values   *)
(* (a value whose key is absent is not read).  The key ele_tree is present *)
(* exactly when the descriptor has an entry below it.                      *)
(***************************************************************************)
PageDict(keys, pattern, by, is_frame, order, timeout, gap) ==
    [keys |-> keys, pattern |-> pattern, by |-> by, is_frame |-> is_frame,
     order |-> order, timeout |-> timeout, gap |-> gap]

Parent(p) == SubSeq(p, 1, Len(p) - 1)
Kids(d, p) == {q \in DOMAIN d : Len(q) = Len(p) + 1 /\ Parent(q) = p}
HasKey(d, p, key) ==
    IF key = _ELE_TREE THEN Kids(d, p) # {} ELSE key \in d[p].keys

\* dict iteration order of the names under one ele_tree
NameOrder == <<"page", "a", "b", "find", "driver", "click", "ele_tree">>
Rank(name) == CHOOSE i \in 1..Len(NameOrder) : NameOrder[i] = name
RECURSIVE InOrder(_)
InOrder(S) ==
    IF S = {} THEN <<>>
    ELSE LET first == CHOOSE q \in S :
                        \A r \in S : Rank(q[Len(q)]) <= Rank(r[Len(r)])
         IN <<first>> \o InOrder(S \ {first})

(***************************************************************************)
(* PageObject.__init__ (lines 127-162).                                    *)
(***************************************************************************)
\* self.name inside __init__ before line 146 has assigned it: the instance
\* dict holds only the defaults, so __getattr__ (lines 164-174) is entered;
\* "name" is no key of WebElement.__dict__ and there is no ele_tree yet, so
\* the AttributeError is re-raised.
GetAttrInInit(item, assigned) ==
    IF item \in assigned \cup DOMAIN DEFAULT_ATTRIBUTE THEN "ok"
    ELSE "AttributeError"

\* raise ValueError(msg.format(..., name=self.name)): the exception that
\* leaves the raise statement.
RaiseValueErrorNamingSelf(assigned) ==
    IF GetAttrInInit("name", assigned) = "ok" THEN "ValueError"
    ELSE GetAttrInInit("name", assigned)

\* Lines 138-144: the checks made on one (name, page) item; "ok" or the kind
\* of the exception raised.
Validate(d, p) ==
    IF p[Len(p)] \in _INVALID_ELE_NAME THEN "ValueError"
    ELSE IF ~HasKey(d, p, "pattern") THEN RaiseValueErrorNamingSelf({})
    ELSE IF HasKey(d, p, "by") /\ d[p].by \notin BY_LIST
         THEN RaiseValueErrorNamingSelf({})
    ELSE "ok"

EleFrameNoInherit(d, p, frame) ==
    IF HasKey(d, p, "is_frame") /\ d[p].is_frame THEN p ELSE NoNode

\* Line 155: the frame handed to the children.
EleFrame(d, p, frame) ==
    IF HasKey(d, p, "is_frame") /\ d[p].is_frame THEN p ELSE frame

NewObjectFlagUnread(d, p, pre_ele, frame) ==
    [name |-> p[Len(p)],
     pre_ele |-> pre_ele,
     frame |-> frame,
     pattern |-> d[p].pattern,
     by |-> IF HasKey(d, p, "by") THEN d[p].by ELSE DEFAULT_ATTRIBUTE.by,
     timeout |-> IF HasKey(d, p, "timeout") THEN d[p].timeout
                 ELSE DEFAULT_ATTRIBUTE.timeout,
     gap |-> IF HasKey(d, p, "gap") THEN d[p].gap ELSE DEFAULT_ATTRIBUTE.gap,
     is_frame |-> DEFAULT_ATTRIBUTE.is_frame,
     order |-> IF HasKey(d, p, "order") THEN d[p].order
               ELSE DEFAULT_ATTRIBUTE.order,
     has_tree |-> HasKey(d, p, _ELE_TREE)]

\* Lines 136, 146-148, 159-161: the attributes of the object once built.
\* dict(self.__dict__, **page) lets the keys of page override the defaults.
NewObject(d, p, pre_ele, frame) ==
    [name |-> p[Len(p)],
     pre_ele |-> pre_ele,
     frame |-> frame,
     pattern |-> d[p].pattern,
     by |-> IF HasKey(d, p, "by") THEN d[p].by ELSE DEFAULT_ATTRIBUTE.by,
     timeout |-> IF HasKey(d, p, "timeout") THEN d[p].timeout
                 ELSE DEFAULT_ATTRIBUTE.timeout,
     gap |-> IF HasKey(d, p, "gap") THEN d[p].gap ELSE DEFAULT_ATTRIBUTE.gap,
     is_frame |-> IF HasKey(d, p, "is_frame") THEN d[p].is_frame
                  ELSE DEFAULT_ATTRIBUTE.is_frame,
     order |-> IF HasKey(d, p, "order") THEN d[p].order
               ELSE DEFAULT_ATTRIBUTE.order,
     has_tree |-> HasKey(d, p, _ELE_TREE)]

EmptyTree == [q \in {} |-> 0]

RECURSIVE PageObject(_, _, _, _)
RECURSIVE BuildChildren(_, _, _, _, _)

\* PageObject({name: page}, pre_ele, frame): [exc, tree], where tree holds
\* the object and every object below it.
PageObject(d, p, pre_ele, frame) ==
    LET v == Validate(d, p) IN
    IF v # "ok" THEN [exc |-> v, tree |-> EmptyTree]
    ELSE LET sub == BuildChildren(d, InOrder(Kids(d, p)), p,
                                  EleFrame(d, p, frame), EmptyTree)
         IN IF sub.exc # "ok" THEN [exc |-> sub.exc, tree |-> EmptyTree]
            ELSE [exc |-> "ok",
                  tree |-> (p :> NewObject(d, p, pre_ele, frame)) @@ sub.tree]

\* Lines 156-157: the loop over self.ele_tree; the first child whose
\* construction raises ends it.
BuildChildren(d, todo, pre_ele, ele_frame, acc) ==
    IF todo = <<>> THEN [exc |-> "ok", tree |-> acc]
    ELSE LET r == PageObject(d, Head(todo), pre_ele, ele_frame) IN
         IF r.exc # "ok" THEN [exc |-> r.exc, tree |-> EmptyTree]
         ELSE BuildChildren(d, Tail(todo), pre_ele, ele_frame, acc @@ r.tree)

Root(d) == CHOOSE p \in DOMAIN d : Len(p) = 1

\* get_page_with_yaml without a driver (lines 269-271): PageObject(page_dict)
Build(d) == PageObject(d, Root(d), NoNode, NoNode)

(***************************************************************************)
(* The state an operation works on while it runs: the resolution caches of *)
(* the objects, their ages, the browser (its context and, for every         *)
(* descriptor, how many elements its pattern matches now) and the browser  *)
(* calls made so far.                                                      *)
(***************************************************************************)
Nodes == DOMAIN page

NoExc == [kind |-> "none", who |-> ""]
Exc(kind, who) == [kind |-> kind, who |-> who]
Return(s, val) == [s |-> s, exc |-> NoExc, val |-> val]
Raised(r) == r.exc.kind # "none"

\* The log of an operation: the calls made to the browser (find_elements,
\* switch_to.frame, switch_to.default_content, get_attribute, the two
\* scripts, save_screenshot, click, send_keys), each with the descriptor it
\* is made for, its argument, the browser context it is made in and, for
\* find_elements, how many elements the browser answers; and, as history,
\* every return of find ("find.return", or "find.ele.return" when called by
\* ele, with the value returned) and every raise statement reached
\* ("raise", with the exception's kind).
DriverV == [k |-> "driver", v |-> <<>>]
Event(e, d, arg, s) ==
    [e |-> e, d |-> d, arg |-> arg, ctx |-> s.ctx,
     ans |-> IF e = "find_elements" THEN s.dom[d] ELSE 0]
Log(s, e, d, arg) == [s EXCEPT !.log = Append(@, Event(e, d, arg, s))]
Raise(s, kind, who) ==
    [s |-> Log(s, "raise", NoNode, [k |-> kind, v |-> <<>>]),
     exc |-> Exc(kind, who), val |-> None]

HasDriverAttrOnly(d) == driver[d] # "unset"

\* hasattr(obj, 'driver') and isinstance(obj.driver, WebDriver) (line 30)
HasDriver(d) == driver[d] = "WebDriver"

\* Time.  last_found is written at line 238 (time.time()) and read at line
\* 209 only, as time.time() - self.last_found < self.gap.  The model keeps
\* that difference, age, in seconds; an age that has reached the object's
\* gap stays there, since line 209 tells no larger age from it.
Older(a, t) ==
    [q \in DOMAIN a |-> IF a[q] + t < page[q].gap THEN a[q] + t
                        ELSE page[q].gap]
\* t seconds pass while an operation runs
Pass(s, t) == [s EXCEPT !.age = Older(s.age, t)]

CacheFreshInclusive(d, s) == ~IsNone(s.eles[d]) /\ s.age[d] <= page[d].gap

\* line 209: self.eles is not None and time.time() - self.last_found < self.gap
CacheFresh(d, s) == ~IsNone(s.eles[d]) /\ s.age[d] < page[d].gap

\* PageObject.count (lines 191-196)
Count(d, s) == IF ~IsNone(s.eles[d]) THEN Len(s.eles[d].v) ELSE 0

\* line 221: the search starts from the driver
ScopeIsDriver(d) ==
    page[d].pre_ele = NoNode \/ page[page[d].pre_ele].is_frame

\* Lines 231-244: WebDriverWait(scope, timeout, gap, ignore).until(
\* find_elements).  until returns the first non-empty list; when the timeout
\* elapses it raises TimeoutException, which find catches, returning None.
WaitFoundUnstamped(d, s) ==
    LET found == ListV(Matches(d, s.dom[d])) IN
    Return([s EXCEPT !.eles[d] = found], found)

WaitFound(d, s) ==
    LET found == ListV(Matches(d, s.dom[d])) IN
    Return([s EXCEPT !.eles[d] = found, !.age[d] = 0], found)

WaitTimeoutUncaught(d, s) ==
    Raise(Pass(s, page[d].timeout), "TimeoutException", page[d].name)

WaitTimeout(d, s) ==
    Return(Pass(s, page[d].timeout), None)

Wait(d, scope, s) ==
    LET s1 == Log(s, "find_elements", d, scope) IN
    IF s1.dom[d] > 0 THEN WaitFound(d, s1) ELSE WaitTimeout(d, s1)

EleOfUnchecked(d, found, s) ==
    IF ~IsNone(found)
    THEN LET x == Index(s.eles[d].v, page[d].order) IN
         IF x = IndexError THEN Raise(s, "IndexError", page[d].name)
         ELSE Return(s, x)
    ELSE Return(s, None)

\* Line 186: what ele returns once find has returned `found`.
EleOf(d, found, s) ==
    IF ~IsNone(found) /\ page[d].order < Count(d, s)
    THEN LET x == Index(s.eles[d].v, page[d].order) IN
         IF x = IndexError THEN Raise(s, "IndexError", page[d].name)
         ELSE Return(s, x)
    ELSE Return(s, None)

PreEleNotFoundIgnored(d, s) == Wait(d, DriverV, s)

\* Lines 225-227: the parent's find returned None.
PreEleNotFound(d, s) ==
    Raise(s, "NoSuchElementException", page[page[d].pre_ele].name)

\* try: ... except kind: pass
Except(r, kind) ==
    IF Raised(r) /\ r.exc.kind = kind THEN Return(r.s, None) ELSE r

\* An operator that calls another takes the call's result (r, e, ...) as a
\* parameter of the operator for the lines after the call: an exception the
\* call raised leaves the caller too.

RECURSIVE Find(_, _, _)
RECURSIVE FindBody(_, _, _)
RECURSIVE Ele(_, _)

\* Lines 230-244, e what self.pre_ele.ele gave (line 229)
FindInPreEle(d, e) ==
    IF Raised(e) THEN e
    \* getattr(type(None), 'find_elements') (line 230)
    ELSE IF IsNone(e.val) THEN Raise(e.s, "AttributeError", "")
    ELSE Wait(d, e.val, e.s)

\* Lines 225-244, r what self.pre_ele.find() gave (line 225)
FindBelowPreEle(d, r) ==
    IF Raised(r) THEN r
    ELSE IF IsNone(r.val) THEN PreEleNotFound(d, r.s)
    ELSE FindInPreEle(d, Ele(page[d].pre_ele, r.s))

\* PageObject.find (lines 204-244), under require_driver.
FindBody(d, src, s) ==
    IF ~HasDriver(d) THEN Raise(s, "AttributeError", page[d].name)
    ELSE IF CacheFresh(d, s)
    THEN IF src = "ele" THEN Return(s, s.eles[d]) ELSE Ele(d, s)
    ELSE LET s1 == [s EXCEPT !.eles[d] = None] IN
         IF ScopeIsDriver(d) THEN Wait(d, DriverV, s1)
         ELSE FindBelowPreEle(d, Find(page[d].pre_ele, "", s1))

\* the return of find entered in the log
FindReturn(d, src, r) ==
    IF Raised(r) THEN r
    ELSE Return(Log(r.s, IF src = "ele" THEN "find.ele.return"
                         ELSE "find.return", d, r.val), r.val)

Find(d, src, s) == FindReturn(d, src, FindBody(d, src, s))

\* Line 186, r what self.find(src='ele') gave
EleOfFound(d, r) == IF Raised(r) THEN r ELSE EleOf(d, r.val, r.s)

\* PageObject.ele (lines 180-189)
Ele(d, s) == EleOfFound(d, Find(d, "ele", s))

(***************************************************************************)
(* Attribute access, obj.item (lines 164-174).                             *)
(***************************************************************************)
\* what object.__getattribute__ finds on the class: the attributes of
\* PageObject (its properties ele and count among them) and of object
ClassDict ==
    {"DEFAULT_ATTRIBUTE", "__init__", "__getattr__", "__repr__", "ele",
     "count", "set_driver", "find", "click", "send_keys"} \cup ObjectDict
\* the keys of the instance dict: the defaults (line 136), the attributes
\* assigned at lines 146-151 and 159-161, and driver once set_driver ran
InstanceDict(d) ==
    {"by", "timeout", "gap", "ignore", "is_frame", "order", "name",
     "pre_ele", "frame", "pattern", "last_found", "eles"}
    \cup (IF page[d].has_tree THEN {_ELE_TREE} ELSE {})
    \cup (IF driver[d] # "unset" THEN {"driver"} ELSE {})

\* the values an attribute access gives: an attribute of the object itself,
\* a child object, an attribute of the element
OwnV(item) == [k |-> "own", v |-> <<item>>]
ChildV(q) == [k |-> "child", v |-> <<q>>]
NativeV(item) == [k |-> "native", v |-> <<item>>]

\* Line 170: getattr(self.ele, item), e what self.ele gave
GetAttrOfEle(d, item, e) ==
    IF Raised(e) THEN e
    ELSE IF IsNone(e.val) THEN Raise(e.s, "AttributeError", "")
    ELSE Return(e.s, NativeV(item))

\* obj.item, item the name of no property: object.__getattribute__ (line
\* 166) and, when it raises AttributeError, lines 169-174.
GetAttr(d, item, s) ==
    IF item \in ClassDict \cup InstanceDict(d) THEN Return(s, OwnV(item))
    ELSE IF item \in WebElementDict THEN GetAttrOfEle(d, item, Ele(d, s))
    ELSE IF page[d].has_tree /\ Append(d, item) \in DOMAIN page
    THEN Return(s, ChildV(Append(d, item)))
    ELSE Raise(s, "AttributeError", page[d].name)

(***************************************************************************)
(* The decorated actions click and send_keys (lines 246-258):              *)
(* require_driver(switch_frame(highlight(screenshot(f)))).  inp is what    *)
(* the browser does with the native action: whether it succeeds            *)
(* (inp.ok) and what the patterns match once it has run (inp.after).       *)
(***************************************************************************)
\* .click() / .send_keys(*value) on e, what self.ele gave (lines 251, 258)
NativeOn(d, f, e, inp) ==
    IF Raised(e) THEN e
    \* None has no attribute click / send_keys
    ELSE IF IsNone(e.val) THEN Raise(e.s, "AttributeError", "")
    ELSE LET s1 == Log(e.s, f, d, e.val) IN
         IF inp.ok THEN Return([s1 EXCEPT !.dom = inp.after], None)
         ELSE Raise(s1, "WebDriverException", "")

\* self.ele.click() / self.ele.send_keys(*value) (lines 251, 258)
NativeAction(d, f, s, inp) == NativeOn(d, f, Ele(d, s), inp)

\* Lines 86-88, r what the wrapped function gave (line 85)
ScreenshotAfter(d, r) ==
    IF Raised(r) THEN r
    ELSE Return(Log(r.s, "save_screenshot", d, [k |-> "after", v |-> <<>>]),
                r.val)

ScreenshotAfterOnly(d, f, s, inp) ==
    ScreenshotAfter(d, NativeAction(d, f, s, inp))

\* PageDecorator.screenshot (lines 82-88)
Screenshot(d, f, s, inp) ==
    ScreenshotAfter(d, NativeAction(d, f,
        Log(s, "save_screenshot", d, [k |-> "before", v |-> <<>>]), inp))

\* driver.execute_script("arguments[0].style.border=...", el): the script
\* dereferences arguments[0], so a null argument makes it fail.
ExecuteScript(d, what, el, s) ==
    LET s1 == Log(s, what, d, el) IN
    IF IsNone(el) THEN Raise(s1, "JavascriptException", "")
    ELSE Return(s1, None)

\* Line 70, e what obj.ele gave
RestoreStyleOf(d, e) ==
    IF Raised(e) THEN e ELSE ExecuteScript(d, "restore_style", e.val, e.s)

\* Lines 69-72: the try around the restoring execute_script, whose argument
\* obj.ele is evaluated inside it.
RestoreStyle(d, s) ==
    Except(RestoreStyleOf(d, Ele(d, s)), "NoSuchElementException")

\* Line 73, r what the wrapped function gave and b the restoring try
HighlightReturn(r, b) == IF Raised(b) THEN b ELSE Return(b.s, r.val)

\* Lines 69-73, r what the wrapped function gave (line 68)
HighlightRestore(d, r) ==
    IF Raised(r) THEN r ELSE HighlightReturn(r, RestoreStyle(d, r.s))

\* Lines 68-73, h what the highlighting execute_script gave (line 67)
HighlightCall(d, f, h, inp) ==
    IF Raised(h) THEN h ELSE HighlightRestore(d, Screenshot(d, f, h.s, inp))

\* Lines 67-73, e what obj.ele gave at line 67
HighlightStyle(d, f, e, inp) ==
    IF Raised(e) THEN e
    ELSE HighlightCall(d, f,
             ExecuteScript(d, "highlight_style", e.val, e.s), inp)

\* Lines 66-73, e what obj.ele gave at line 66
HighlightOf(d, f, e, inp) ==
    IF Raised(e) THEN e
    \* None.get_attribute("style")
    ELSE IF IsNone(e.val) THEN Raise(e.s, "AttributeError", "")
    ELSE HighlightStyle(d, f,
             Ele(d, Log(e.s, "get_attribute", d, e.val)), inp)

\* PageDecorator.highlight (lines 65-73)
Highlight(d, f, s, inp) == HighlightOf(d, f, Ele(d, s), inp)

\* obj.driver.switch_to.frame(obj.frame.eles[0]) (line 48)
SwitchToFrame(d, s) ==
    LET fr == page[d].frame
        x == Index(s.eles[fr].v, 0)
    IN [Log(s, "switch_to.frame", fr, x) EXCEPT !.ctx = Append(s.ctx, fr)]

\* obj.driver.switch_to.default_content() (line 54)
SwitchToDefault(d, s) ==
    [Log(s, "switch_to.default_content", d, None) EXCEPT !.ctx = <<>>]

\* Lines 53-56, r what the wrapped function gave (line 52): when it has
\* returned and a frame was switched into, the context is switched back.
SwitchBack(d, r, mark) ==
    IF Raised(r) THEN r
    ELSE IF mark THEN Return(SwitchToDefault(d, r.s), r.val)
    ELSE r

\* Lines 52-56: the wrapped function is called, outside any try.  An
\* exception leaves the wrapper at line 52.
CallThenSwitchBack(d, f, s, inp, mark) ==
    SwitchBack(d, Highlight(d, f, s, inp), mark)

FrameNotFoundIgnored(d, f, s, inp) == CallThenSwitchBack(d, f, s, inp, FALSE)

\* Lines 50-51: the frame's find returned None.
FrameNotFound(d, f, s, inp) ==
    Raise(s, "NoSuchFrameException", page[page[d].frame].name)

\* Lines 46-56, r what obj.frame.find() gave (line 46)
SwitchInto(d, f, r, inp) ==
    IF Raised(r) THEN r
    ELSE IF ~IsNone(r.val)
    THEN CallThenSwitchBack(d, f, SwitchToFrame(d, r.s), inp, TRUE)
    ELSE FrameNotFound(d, f, r.s, inp)

\* PageDecorator.switch_frame (lines 43-56)
SwitchFrame(d, f, s, inp) ==
    IF page[d].frame # NoNode
    THEN SwitchInto(d, f, Find(page[d].frame, "", s), inp)
    ELSE CallThenSwitchBack(d, f, s, inp, FALSE)

\* PageDecorator.require_driver (lines 29-33) around switch_frame
Action(d, f, s, inp) ==
    IF HasDriver(d) THEN SwitchFrame(d, f, s, inp)
    ELSE Raise(s, "AttributeError", page[d].name)

(***************************************************************************)
(* PageObject.set_driver (lines 198-202): the object and, when it has an   *)
(* ele_tree, every object of it, recursively.                              *)
(***************************************************************************)
RECURSIVE SetDriverIn(_, _, _)
RECURSIVE SetDriverAll(_, _, _)
SetDriverShallow(p, v, drv) == [drv EXCEPT ![p] = v]

SetDriverIn(p, v, drv) ==
    LET d1 == [drv EXCEPT ![p] = v] IN
    IF page[p].has_tree THEN SetDriverAll(InOrder(Kids(page, p)), v, d1)
    ELSE d1
SetDriverAll(todo, v, drv) ==
    IF todo = <<>> THEN drv
    ELSE SetDriverAll(Tail(todo), v, SetDriverIn(Head(todo), v, drv))

(***************************************************************************)
(* Configuration documents of the model.                                   *)
(***************************************************************************)
Plain(order, timeout, gap) ==
    PageDict({"pattern", "order", "timeout", "gap"}, "div", "css selector",
             FALSE, order, timeout, gap)
Frame(order, timeout, gap) ==
    PageDict({"pattern", "is_frame", "order", "timeout", "gap"}, "iframe",
             "css selector", TRUE, order, timeout, gap)

\* a frame in a frame, and a descriptor in the inner frame
DocFrames ==
    (<<"page">> :> Frame(0, 1, 0)) @@ (<<"page", "a">> :> Frame(1, 1, 1))
    @@ (<<"page", "a", "b">> :> Plain(0, 1, 1))
\* a frame below a descriptor that is no frame
DocBoxed ==
    (<<"page">> :> Plain(1, 1, 2)) @@ (<<"page", "a">> :> Frame(0, 1, 1))
    @@ (<<"page", "a", "b">> :> Plain(1, 2, 0))
\* no frames: a descriptor and two descriptors found below its element
DocPlain ==
    (<<"page">> :> Plain(0, 1, 1)) @@ (<<"page", "a">> :> Plain(1, 1, 0))
    @@ (<<"page", "b">> :> Plain(0, 2, 2))

\* children named as a method and as an attribute of the object
DocNamed ==
    (<<"page">> :> Plain(0, 1, 0)) @@ (<<"page", "find">> :> Plain(0, 1, 0))
    @@ (<<"page", "driver">> :> Plain(0, 1, 0))

RunDocs == {DocFrames, DocBoxed, DocPlain, DocNamed}

\* Every document of at most MaxNodes descriptors named "page" (the root), "a"
\* and "b", each descriptor one of: a pattern alone (every default applies);
\* a frame; every key given; no pattern; a strategy outside BY_LIST.
DictPlain == PageDict({"pattern"}, "div", "css selector", FALSE, 0, 0, 0)
DictFrame ==
    PageDict({"pattern", "is_frame"}, "iframe", "css selector", TRUE, 0, 0, 0)
DictFull ==
    PageDict({"pattern", "by", "is_frame", "order", "timeout", "gap"},
             "//div", "xpath", FALSE, 1, 2, 0)
DictNoPattern == PageDict({"by"}, "", "id", FALSE, 0, 0, 0)
DictBogusBy ==
    PageDict({"pattern", "by"}, "div", "bogus-strategy", FALSE, 0, 0, 0)
Dicts == {DictPlain, DictFrame, DictFull, DictNoPattern, DictBogusBy}

ChildNames == {"a", "b", "click", "ele_tree"}
\* the sets of at most k paths that hold the root and, with a path, its parent
RECURSIVE ShapesOf(_)
ShapesOf(k) ==
    IF k = 1 THEN {{<<"page">>}}
    ELSE LET T == ShapesOf(k - 1) IN
         T \cup UNION {{S \cup {Append(p, c)} : p \in S, c \in ChildNames} :
                       S \in T}
Shapes == ShapesOf(MaxNodes)
AllDocs == UNION {[S -> Dicts] : S \in Shapes}

(***************************************************************************)
(* The operations.                                                         *)
(***************************************************************************)
NoCall == [op |-> "none", d |-> NoNode, item |-> "", log |-> <<>>,
           exc |-> NoExc, val |-> None]

Init ==
    /\ doc \in RunDocs
    /\ built = "pending"
    /\ page = EmptyTree
    /\ driver = EmptyTree
    /\ eles = EmptyTree
    /\ age = EmptyTree
    /\ ctx = <<>>
    /\ call = NoCall

\* page_object = PageObject(page_dict) (line 271)
Construct ==
    /\ built = "pending"
    /\ LET r == Build(doc) IN
       /\ built' = r.exc
       /\ page' = r.tree
       /\ driver' = [p \in DOMAIN r.tree |-> "unset"]
       /\ eles' = [p \in DOMAIN r.tree |-> None]
       \* last_found = 0 (line 160): the epoch is further back than any gap
       /\ age' = [p \in DOMAIN r.tree |-> r.tree[p].gap]
    /\ UNCHANGED <<doc, ctx, call>>

\* The program is one thread: an operation is called when none is running.
\* call holds the operation that has just ended until its caller has taken
\* the result (TakeResult).
Idle == built = "ok" /\ call.op = "none"

\* page_object.set_driver(v) on the page object, v a WebDriver or None
\* (line 273 with a WebDriver)
SetDriver(p, v) ==
    /\ Idle
    /\ p = Root(doc)
    /\ driver' = SetDriverIn(p, v, driver)
    /\ UNCHANGED <<doc, built, page, eles, age, ctx, call>>

Start(dom) ==
    [eles |-> eles, age |-> age, ctx |-> ctx, dom |-> dom, log |-> <<>>]

\* the operation has run to its end (result r) within the model's bounds
FinishItem(op, d, item, r) ==
    /\ Len(r.s.ctx) <= MaxCtx
    /\ eles' = r.s.eles
    /\ age' = r.s.age
    /\ ctx' = r.s.ctx
    /\ call' = [op |-> op, d |-> d, item |-> item, log |-> r.s.log,
                exc |-> r.exc, val |-> r.val]
    /\ UNCHANGED <<doc, built, page, driver>>
Finish(op, d, r) == FinishItem(op, d, "", r)

\* The descriptors an operation on d can look up: d, and the parents and
\* frames of those.  The browser's answers for the others are not asked for.
RECURSIVE Upward(_)
Upward(S) ==
    LET T == S \cup {page[q].pre_ele : q \in S} \cup {page[q].frame : q \in S}
        U == T \ {NoNode}
    IN IF U = S THEN S ELSE Upward(U)
Doms(d) ==
    {dom \in [Nodes -> 0..MaxMatches] :
        \A q \in Nodes \ Upward({d}) : dom[q] = 0}
\* what is left of the page after the native action on d: everything, all
\* but the elements of d, or nothing
Afters(dom, d) ==
    {dom, [dom EXCEPT ![d] = 0], [q \in Nodes |-> 0]}
NativeInputs(dom, d) ==
    {[ok |-> ok, after |-> after] : ok \in BOOLEAN, after \in Afters(dom, d)}
NativeReached(r, f) == \E i \in 1..Len(r.s.log) : r.s.log[i].e = f

CallFind(d) ==
    /\ Idle
    /\ \E dom \in Doms(d) : Finish("find", d, Find(d, "", Start(dom)))

CallEle(d) ==
    /\ Idle
    /\ \E dom \in Doms(d) : Finish("ele", d, Ele(d, Start(dom)))

\* click and send_keys.  The browser's part in the native action is read
\* only when the native action is reached: a run that ends before it is the
\* same for every such input, and is taken once.
CallAction(d, f) ==
    /\ Idle
    /\ \E dom \in Doms(d) :
         LET quiet == [ok |-> TRUE, after |-> dom] IN
         \E inp \in IF NativeReached(Action(d, f, Start(dom), quiet), f)
                    THEN NativeInputs(dom, d) ELSE {quiet} :
            Finish(f, d, Action(d, f, Start(dom), inp))

\* obj.item.  The browser is asked only for an item of WebElement.
AttrNames == {"a", "b", "find", "driver", "click", "missing"}
NoMatches == [q \in Nodes |-> 0]
CallGetAttr(d, item) ==
    /\ Idle
    /\ \E dom \in IF item \in WebElementDict THEN Doms(d) ELSE {NoMatches} :
         FinishItem("getattr", d, item, GetAttr(d, item, Start(dom)))

\* the caller takes the result of the operation
TakeResult ==
    /\ built = "ok"
    /\ call.op # "none"
    /\ call' = NoCall
    /\ UNCHANGED <<doc, built, page, driver, eles, age, ctx>>

\* a second passes between two operations
Tick ==
    /\ Idle
    /\ age' = Older(age, 1)
    /\ UNCHANGED <<doc, built, page, driver, eles, ctx, call>>

Next ==
    \/ Construct
    \/ \E p \in Nodes : \E v \in {"WebDriver", "None"} : SetDriver(p, v)
    \/ \E d \in Nodes : CallFind(d)
    \/ \E d \in Nodes : CallEle(d)
    \/ \E d \in Nodes : CallAction(d, "click")
    \/ \E d \in Nodes : CallAction(d, "send_keys")
    \/ \E d \in Nodes : \E item \in AttrNames : CallGetAttr(d, item)
    \/ TakeResult
    \/ Tick

Spec == Init /\ [][Next]_vars

\* The construction alone, of every document of AllDocs.
InitBuild ==
    /\ doc \in AllDocs
    /\ built = "pending"
    /\ page = EmptyTree
    /\ driver = EmptyTree
    /\ eles = EmptyTree
    /\ age = EmptyTree
    /\ ctx = <<>>
    /\ call = NoCall
NextBuild == Construct
SpecBuild == InitBuild /\ [][NextBuild]_vars

(***************************************************************************)
(* Properties.                                                             *)
(***************************************************************************)
BrowserCalls ==
    {"find_elements", "switch_to.frame", "switch_to.default_content",
     "get_attribute", "highlight_style", "restore_style", "save_screenshot",
     "click", "send_keys"}
Actions == {"click", "send_keys"}
\* the object holds a WebDriver
Attached(d) == driver[d] = "WebDriver"
\* the positions of log that hold event e for descriptor d
At(log, e, d) == {i \in 1..Len(log) : log[i].e = e /\ log[i].d = d}
\* the positions of log that hold a call to the browser among the kinds es
Made(log, es) == {i \in 1..Len(log) : log[i].e \in es}
First(S) == CHOOSE i \in S : \A j \in S : i <= j

\* the operation that has just ended is op on d
Ended(ops) == built = "ok" /\ call.op \in ops
Target == call.d
\* the value the first call of find on descriptor q by another function
\* returned in the operation, when it returned
Returned(q) == At(call.log, "find.return", q)
FirstReturn(q) == call.log[First(Returned(q))].arg
InstrumentCalls ==
    {"switch_to.frame", "switch_to.default_content", "get_attribute",
     "highlight_style", "restore_style", "save_screenshot", "click",
     "send_keys"}

\* C1: a click or send_keys that switched into the frame of its descriptor
\* ends with the browser in the top-level context, whether the wrapped
\* action returned or raised.
C1_SwitchedBack ==
    (Ended(Actions) /\ Made(call.log, {"switch_to.frame"}) # {}) => ctx = <<>>

\* C2: when the frame of the descriptor does not resolve (the frame's find
\* returns None), click and send_keys raise the frame-not-found error naming
\* the frame, and have made no switch into a frame, no highlight, no
\* screenshot and no native action; the same calls are not made either when
\* the frame's find raises.
C2_FrameNotFound ==
    (Ended(Actions) /\ Attached(Target) /\ page[Target].frame # NoNode) =>
        LET fr == page[Target].frame IN
        /\ (Returned(fr) # {} /\ IsNone(FirstReturn(fr))) =>
              /\ call.exc = Exc("NoSuchFrameException", page[fr].name)
              /\ Made(call.log, InstrumentCalls) = {}
        /\ Returned(fr) = {} =>
              /\ Raised(call)
              /\ Made(call.log, InstrumentCalls) = {}

\* a click that asked the browser for the frame, which it did not find
C2_Witness ==
    /\ Ended({"click"})
    /\ call.exc.kind = "NoSuchFrameException"
    /\ At(call.log, "find_elements", page[Target].frame) # {}

\* the browser's answers to the queries for the pattern of descriptor q
Answers(q) == {call.log[i].ans : i \in At(call.log, "find_elements", q)}

\* C3: when the browser finds no match for the descriptor's pattern within
\* the timeout, find and ele return None and raise nothing.
C3_TimeoutIsAbsence ==
    (Ended({"find", "ele"}) /\ 0 \in Answers(Target)) =>
        (~Raised(call) /\ IsNone(call.val))

\* a find below a parent that resolved, whose own pattern timed out
C3_Witness ==
    /\ Ended({"find"})
    /\ 0 \in Answers(Target)
    /\ page[Target].pre_ele # NoNode
    /\ ~IsNone(eles[page[Target].pre_ele])
    /\ IsNone(eles[Target])

\* a step that calls find or ele on a descriptor with a cached list
Resolves(d) ==
    /\ call.op = "none"
    /\ call'.op \in {"find", "ele"}
    /\ call'.d = d
    /\ ~IsNone(eles[d])
Queried(log, d) == At(log, "find_elements", d) # {}

\* C4 as claimed: with a list cached at time t, find and ele before t + gap
\* make no query for the descriptor, and at or after t + gap they make one.
C4_CacheWindow ==
    [][\A d \in Nodes : Resolves(d) =>
          /\ age[d] < page[d].gap => ~Queried(call'.log, d)
          /\ age[d] >= page[d].gap => Queried(call'.log, d)]_vars

\* C4 amended: with a list cached at time t, find and ele before t + gap
\* make no query for the descriptor and keep the list; at or after t + gap
\* they do not use the list: with a driver attached they drop it and make a
\* new query for the descriptor, unless the resolution of the parent fails
\* first (the call raises and the list stays dropped); without a driver
\* they raise the attribute error.
C4_CacheWindowOrFailure ==
    [][\A d \in Nodes : Resolves(d) =>
          /\ age[d] < page[d].gap =>
                (~Queried(call'.log, d) /\ eles'[d] = eles[d])
          /\ (age[d] >= page[d].gap /\ Attached(d)) =>
                \/ Queried(call'.log, d)
                \/ call'.exc.kind # "none" /\ IsNone(eles'[d])
          /\ (age[d] >= page[d].gap /\ ~Attached(d)) =>
                call'.exc.kind = "AttributeError"]_vars

\* a find served from a cache one second old, the gap being two seconds
C4_Witness ==
    /\ Ended({"find"})
    /\ ~Queried(call.log, Target)
    /\ ~Raised(call)
    /\ age[Target] = 1
    /\ page[Target].gap = 2

\* C5: ele raises no index error; when it returns, it returns the match at
\* position order of the list that find left, if the list has one, and None
\* otherwise.
C5_EleWithinBounds ==
    Ended({"ele"}) =>
        /\ call.exc.kind # "IndexError"
        /\ ~Raised(call) =>
              call.val = IF page[Target].order < Count(Target, [eles |-> eles])
                         THEN ElemV(eles[Target].v[page[Target].order + 1])
                         ELSE None

\* ele on a descriptor of order 1 whose pattern matched one element
C5_Witness ==
    /\ Ended({"ele"})
    /\ page[Target].order = 1
    /\ Count(Target, [eles |-> eles]) = 1
    /\ 1 \in Answers(Target)
    /\ IsNone(call.val)

\* C6: when find is called on a descriptor whose parent is no frame, and the
\* parent's find returns None, find raises the element-not-found error
\* naming the parent and makes no query for the descriptor's own pattern.
C6_AncestorNotFound ==
    (Ended({"find"}) /\ Attached(Target) /\ ~ScopeIsDriver(Target)) =>
        LET pre == page[Target].pre_ele IN
        (Returned(pre) # {} /\ IsNone(FirstReturn(pre))) =>
            /\ call.exc = Exc("NoSuchElementException", page[pre].name)
            /\ ~Queried(call.log, Target)

\* a find whose parent was asked for and not found
C6_Witness ==
    /\ Ended({"find"})
    /\ call.exc.kind = "NoSuchElementException"
    /\ 0 \in Answers(page[Target].pre_ele)

\* the frame-marked ancestors of q, outermost first
RECURSIVE FramesOf(_, _)
FramesOf(q, k) ==
    IF k = 0 \/ page[q].frame = NoNode THEN <<>>
    ELSE Append(FramesOf(page[q].frame, k - 1), page[q].frame)
FrameChain(q) == FramesOf(q, Cardinality(Nodes))

\* C7: every query for a descriptor's pattern is made after its parent has
\* resolved and in the browser context of its frame-marked ancestors,
\* switched into outermost first.
C7_QueryInsideFrames ==
    Ended({"find", "ele", "click", "send_keys"}) =>
        \A i \in Made(call.log, {"find_elements"}) :
            LET q == call.log[i].d IN
            /\ call.log[i].ctx = FrameChain(q)
            /\ ~ScopeIsDriver(q) =>
                  \E j \in 1..(i - 1) :
                      /\ call.log[j].e = "find.return"
                      /\ call.log[j].d = page[q].pre_ele
                      /\ ~IsNone(call.log[j].arg)

\* C8: find, click and send_keys on a descriptor without a driver raise the
\* attribute error, make no call to the browser and leave every cached list,
\* every last_found and the browser context as they were.
C8_RequireDriver ==
    [][(call.op = "none" /\ call'.op \in {"find", "click", "send_keys"}
          /\ ~Attached(call'.d)) =>
          /\ call'.exc = Exc("AttributeError", page[call'.d].name)
          /\ Made(call'.log, BrowserCalls) = {}
          /\ eles' = eles /\ age' = age /\ ctx' = ctx]_vars

\* a click refused for want of a driver on a tree that holds a cached list
C8_Witness ==
    /\ Ended({"click"})
    /\ ~Attached(Target)
    /\ call.exc.kind = "AttributeError"
    /\ \E q \in Nodes : ~IsNone(eles[q])

\* The parent chain of p, nearest first, followed for at most as many steps
\* as the tree has objects.
RECURSIVE Ancestors(_, _)
Ancestors(p, k) ==
    IF k = 0 \/ page[p].pre_ele = NoNode THEN <<>>
    ELSE <<page[p].pre_ele>> \o Ancestors(page[p].pre_ele, k - 1)
ParentChain(p) == Ancestors(p, Cardinality(Nodes))
ChainEndsAtRoot(p) ==
    LET c == ParentChain(p)
        top == IF c = <<>> THEN p ELSE c[Len(c)]
    IN /\ page[top].pre_ele = NoNode
       /\ top = Root(doc)
       /\ \A i \in 1..Len(c) : c[i] \in Nodes /\ c[i] # p
       /\ \A i, j \in 1..Len(c) : c[i] = c[j] => i = j
NearestFrame(c) ==
    LET F == {i \in 1..Len(c) : page[c[i]].is_frame} IN
    IF F = {} THEN NoNode ELSE c[First(F)]

\* C9: in every tree built from a valid configuration, the parent chain of
\* each descriptor is acyclic and ends at the root, and the descriptor's
\* frame is the nearest frame-marked object of that chain, or None when the
\* chain has no frame-marked object.
C9_EnclosingFrame ==
    built = "ok" =>
        \A p \in Nodes :
            ChainEndsAtRoot(p) /\ page[p].frame = NearestFrame(ParentChain(p))

\* a built tree in which a descriptor inherits the frame of its parent, the
\* parent being no frame itself
C9_Witness ==
    /\ built = "ok"
    /\ \E p \in Nodes :
         /\ page[p].frame # NoNode
         /\ page[p].frame # page[p].pre_ele
         /\ ~page[page[p].pre_ele].is_frame

HasBogusBy(d) ==
    \E p \in DOMAIN d : HasKey(d, p, "by") /\ d[p].by \notin BY_LIST

\* C10: a configuration in which some descriptor declares a `by` outside the
\* allowed set is rejected by the construction with the validation error
\* (ValueError), and no tree is produced.
C10_BogusByRejected ==
    (built # "pending" /\ HasBogusBy(doc)) =>
        (built = "ValueError" /\ page = EmptyTree)

LacksPattern(d) == \E p \in DOMAIN d : ~HasKey(d, p, "pattern")
HasReservedName(d) == \E p \in DOMAIN d : p[Len(p)] \in _INVALID_ELE_NAME

\* C11: a configuration in which some descriptor, at any depth, has no
\* `pattern` or has a reserved name (a key of WebElement.__dict__ or of
\* object.__dict__, or "ele_tree") is rejected by the construction with the
\* validation error (ValueError) in both cases.
C11_InvalidRejected ==
    (built # "pending" /\ (LacksPattern(doc) \/ HasReservedName(doc))) =>
        built = "ValueError"

\* C12: for every child declared under a descriptor, the attribute of the
\* descriptor named as the child is that child object.
C12_ChildIsAttribute ==
    (Ended({"getattr"}) /\ Append(Target, call.item) \in Nodes) =>
        (~Raised(call) /\ call.val = ChildV(Append(Target, call.item)))

\* the attached-session check refused the operation that has just ended, or
\* a find made in it
RefusedForDriver(c) == c.exc.kind = "AttributeError" /\ c.exc.who # ""

\* C13: set_driver called on the root leaves its argument in the driver
\* attribute of every object of the tree; with a WebDriver there, no find,
\* ele, click or send_keys on any object is refused by the attached-session
\* check.
C13_DriverEverywhere ==
    [][/\ (built = "ok" /\ call'.op = "none" /\ driver' # driver) =>
             \A q \in Nodes : /\ driver'[q] # "unset"
                              /\ driver'[q] = driver'[Root(doc)]
       /\ (Idle /\ driver[Root(doc)] = "WebDriver"
             /\ call'.op \in {"find", "ele", "click", "send_keys"}) =>
             ~RefusedForDriver(call')]_vars

\* a find on an object two levels below the root that asked the browser
C13_Witness ==
    /\ Ended({"find"})
    /\ Len(Target) = 3
    /\ Attached(Root(doc))
    /\ At(call.log, "find_elements", Target) # {}

\* The document read back from the tree: from object q, reached under the
\* names of prefix, its declared name, pattern and frame flag, and the same
\* for every object of its child map.
RECURSIVE Derived(_, _)
Derived(q, prefix) ==
    LET path == Append(prefix, page[q].name) IN
    {[path |-> path, pattern |-> page[q].pattern,
      is_frame |-> page[q].is_frame]}
    \cup (IF page[q].has_tree
          THEN UNION {Derived(c, path) : c \in Kids(page, q)} ELSE {})
\* the nesting, patterns and frame flags the document declares
Declared(d) ==
    {[path |-> p, pattern |-> d[p].pattern,
      is_frame |-> HasKey(d, p, "is_frame") /\ d[p].is_frame] : p \in DOMAIN d}

C15_CacheHitGivesList ==
    (Ended({"find"}) /\ ~Raised(call) /\ ~Queried(call.log, Target)) =>
        call.val = eles[Target]

\* the instrumentation and native calls of a log, in the order made; the two
\* screenshots are told apart by their file name
Label(ev) == IF ev.e = "save_screenshot" THEN ev.arg.k ELSE ev.e
Instrumentation(log) ==
    LET at == SelectSeq([i \in 1..Len(log) |-> i],
                        LAMBDA i : log[i].e \in InstrumentCalls)
    IN [j \in 1..Len(at) |-> Label(log[at[j]])]
\* no exception was raised and caught inside the operation
NothingCaught(log) == Made(log, {"raise"}) = {}
InOrderOfEvents(d, f, restored) ==
    (IF page[d].frame # NoNode THEN <<"switch_to.frame">> ELSE <<>>)
    \o <<"get_attribute", "highlight_style", "before", f, "after">>
    \o (IF restored THEN <<"restore_style">> ELSE <<>>)
    \o (IF page[d].frame # NoNode THEN <<"switch_to.default_content">>
        ELSE <<>>)

\* C16: a click or send_keys that completes had a driver attached and made
\* its calls in this order: the switch into the frame (if the descriptor has
\* one), the read of the style, the highlight, the screenshot before, the
\* native action, the screenshot after, the restoration of the style, the
\* switch back (if it switched); the restoration alone is missing when the
\* descriptor no longer resolved after the native action and the
\* exception raised for it was caught.
C16_EventOrder ==
    (Ended(Actions) /\ ~Raised(call)) =>
        /\ Attached(Target)
        /\ Instrumentation(call.log) =
              InOrderOfEvents(Target, call.op, NothingCaught(call.log))

\* a completed click in a frame, with every one of the eight calls made
C16_Witness ==
    /\ Ended({"click"})
    /\ ~Raised(call)
    /\ page[Target].frame # NoNode
    /\ Len(Instrumentation(call.log)) = 8

\* the positions of log after the screenshot that follows the native action
AfterNative(log) ==
    {i \in 1..Len(log) :
        \E j \in At(log, "save_screenshot", Target) :
            log[j].arg.k = "after" /\ j < i}
\* after the native action the browser no longer found the element of the
\* descriptor, or of a descriptor it is looked up from
Disappeared(log) ==
    \E i \in AfterNative(log) : log[i].e = "find_elements" /\ log[i].ans = 0

\* C17: a click or send_keys whose native action has run completes, though
\* the element has disappeared since: the restoration of the style raises
\* nothing.
C17_RestoreTolerant ==
    (Ended(Actions) /\ Disappeared(call.log)) => ~Raised(call)

\* descriptor d is looked up below the element of its parent
HasPlainParent(d) ==
    page[d].pre_ele # NoNode /\ ~page[page[d].pre_ele].is_frame
\* the designated element of q: its match at position order, if it has one
HasDesignated(q) == page[q].order < Count(q, [eles |-> eles])
Designated(q) == ElemV(Handle(q, page[q].order))

\* C18: a find or ele that has to resolve a descriptor below a parent that
\* is no frame scopes every query for the descriptor to the designated
\* element of the parent; when the parent has none (nothing found, or its
\* order is out of bounds), it raises the ancestor-not-found error
\* (NoSuchElementException) and makes no query for the descriptor.
C18_ScopedToParent ==
    (/\ Ended({"find", "ele"}) /\ Attached(Target) /\ HasPlainParent(Target)
     /\ (Returned(page[Target].pre_ele) # {} \/ Raised(call))) =>
        LET pre == page[Target].pre_ele IN
        IF HasDesignated(pre)
        THEN \A i \in At(call.log, "find_elements", Target) :
                call.log[i].arg = Designated(pre)
        ELSE /\ call.exc.kind = "NoSuchElementException"
             /\ ~Queried(call.log, Target)

\* the seconds that pass in the calls of log from position i on: a query
\* that finds nothing lasts for the timeout of its descriptor
RECURSIVE TimeFrom(_, _)
TimeFrom(log, i) ==
    IF i > Len(log) THEN 0
    ELSE (IF log[i].e = "find_elements" /\ log[i].ans = 0
          THEN page[log[i].d].timeout ELSE 0) + TimeFrom(log, i + 1)
\* the age of a list of descriptor q that is t seconds old
AgeOf(q, t) == IF t < page[q].gap THEN t ELSE page[q].gap
Last(S) == CHOOSE i \in S : \A j \in S : j <= i
\* a cache as a query for q answered with n matches, t seconds ago, leaves it
FilledBy(q, n, t, es, ages) ==
    es[q] = ListV(Matches(q, n)) /\ ages[q] = AgeOf(q, t)

\* C19: the cached list of a descriptor is always None or a non-empty list.
\* After an operation it is None or the list that the last query for the
\* descriptor returned, aged by the time passed since that query (the list
\* it had before, aged by the time of the operation, when no query for the
\* descriptor was made); when the last query for the descriptor found
\* nothing it is None.  A find or ele that is not served from the cache
\* leaves the list its query returned, or None when it made no query or the
\* query found nothing.
C19_CacheIsLastQuery ==
    [][built = "ok" =>
         \A q \in Nodes :
            /\ IsNone(eles'[q]) \/ (eles'[q].k = "list" /\ eles'[q].v # <<>>)
            /\ (Idle /\ call'.op # "none") =>
                  LET log == call'.log
                      Q == At(log, "find_elements", q)
                  IN IF Q = {}
                     THEN \/ IsNone(eles'[q])
                          \/ /\ eles'[q] = eles[q]
                             /\ age'[q] = AgeOf(q, age[q] + TimeFrom(log, 1))
                     ELSE \/ IsNone(eles'[q])
                          \/ /\ log[Last(Q)].ans > 0
                             /\ FilledBy(q, log[Last(Q)].ans,
                                         TimeFrom(log, Last(Q)), eles', age')
            /\ (/\ Idle /\ call'.op \in {"find", "ele"} /\ call'.d = q
                /\ Attached(q)
                /\ (IsNone(eles[q]) \/ age[q] >= page[q].gap)) =>
                  LET Q == At(call'.log, "find_elements", q) IN
                  IF Q # {} /\ call'.log[Last(Q)].ans > 0
                  THEN FilledBy(q, call'.log[Last(Q)].ans, 0, eles', age')
                  ELSE IsNone(eles'[q])
       ]_vars

\* after an operation, a list that a query of the operation returned and
\* that has aged since, while a later query waited for its timeout
C19_Witness ==
    /\ Ended({"find", "ele", "click"})
    /\ \E q \in Nodes :
         /\ ~IsNone(eles[q])
         /\ Queried(call.log, q)
         /\ age[q] > 0

\* C20: a click or send_keys on a descriptor in a frame, once the frame's
\* find has returned, switches into the designated element of the frame
\* (its match at position order) if the frame has one, and otherwise raises
\* the frame-not-found error without switching.
C20_SwitchIntoDesignated ==
    (/\ Ended(Actions) /\ Attached(Target) /\ page[Target].frame # NoNode
     /\ Returned(page[Target].frame) # {}) =>
        LET fr == page[Target].frame
            S == Made(call.log, {"switch_to.frame"})
        IN IF HasDesignated(fr)
           THEN S # {} /\ \A i \in S : call.log[i].arg = Designated(fr)
           ELSE S = {} /\ call.exc.kind = "NoSuchFrameException"

====
